---- MODULE Spec2Model ----
(***************************************************************************)
(* fibernet message queues (include/mq.h): the global ready queue          *)
(* GlobalMQ, a lock-free ring of mailbox references, and the per-service   *)
(* mailbox MQ, a spinlock-protected growable ring of messages.             *)
(*                                                                         *)
(* One mailbox (the reference This) is modelled in full.  Threads are the  *)
(* owner that constructs and registers the mailbox, producers that call    *)
(* MQ::push, and workers that call GlobalMQ::pop and then MQ::lock,        *)
(* MQ::pop, MQ::pushglobal and MQ::release in the dispatcher's order.      *)
(* Every mailbox method is split at LOCK(), at the shared writes of        *)
(* GlobalMQ::push and at UNLOCK(); GlobalMQ::pop is split at each shared   *)
(* read and write.                                                         *)
(*                                                                         *)
(* Locals that the source initialises from themselves (GlobalMQ::pop       *)
(* line 72, GlobalMQ::push line 96, MQ::pushhead line 296) hold an         *)
(* indeterminate value: the model draws it from every value that gives a   *)
(* different behaviour.                                                    *)
(***************************************************************************)
EXTENDS Integers, Sequences, FiniteSets

\* ----------------------------------------------------------------- bounds
\* mq.h:13 sets MAX_GLOBAL_MQ to 0x10000 and mq.h:12 DEFAULT_QUEUE_SIZE to 64;
\* the model keeps the code and shrinks the two sizes.
MAX_GLOBAL_MQ == 3
DEFAULT_QUEUE_SIZE == 2
NumProducers == 2
MaxMsgs == 2
MaxTurns == 2
MaxSpin == 1

\* ------------------------------------------------------ program constants
MQ_IN_GLOBAL == 1
MQ_DISPATCHING == 2
MQ_LOCKED == 3

\* ------------------------------------------------------------------ names
This == "mq"
NULL == "NULL"
Owner == "owner"
ProducerNames == <<"p1", "p2", "p3", "p4">>
Producers == {ProducerNames[i] : i \in 1 .. NumProducers}
W1 == "w1"
W2 == "w2"
Workers == {W1, W2}
Threads == {Owner} \cup Producers \cup Workers
Slots == 0 .. (MAX_GLOBAL_MQ - 1)
\* Session ids: 0 is "no session"; 7 is the session a worker locks with.
LockSessions == {7}
Sessions == {0} \cup LockSessions

\* struct Message (mq.h:111-117): source and sz are folded into id (the payload
\* buffer) and mc (sz >> HANDLE_REMOTE_SHIFT == PTYPE_MULTICAST).
Message(i, s, m) == [id |-> i, session |-> s, mc |-> m]
\* What an array slot or a local holds before anything is stored in it.
NoMsg == Message(0, 0, FALSE)

VARIABLES
    g_head,     \* GlobalMQ::head
    g_tail,     \* GlobalMQ::tail
    g_queue,    \* GlobalMQ::queue
    g_flag,     \* GlobalMQ::flag
    mq,         \* the mailbox: cap, head, tail, m_lock, m_release, lock_session,
                \* in_global, queue, and alive (FALSE once deleted)
    th,         \* per thread: pc, the locals of the method it is in
    fatal,      \* the assertion that aborted the process, or "none"
    nextId,     \* payload buffers handed out so far
    turns,      \* successful GlobalMQ::pop calls so far
    hist        \* history: what the calls so far did (read by the properties only)

vars == <<g_head, g_tail, g_queue, g_flag, mq, th, fatal, nextId, turns, hist>>

GP(p) == p % MAX_GLOBAL_MQ

\* The references a GlobalMQ::pop can still return: flagged slots.
RefCount == Cardinality({i \in Slots : g_flag[i] /\ g_queue[i] = This})

\* The messages between head and tail, head first.
RECURSIVE Between(_, _, _, _)
Between(q, h, t, n) ==
    IF h = t \/ n = 0 THEN <<>>
    ELSE <<q.queue[h]>> \o Between(q, (h + 1) % q.cap, t, n - 1)
Contents(q) == Between(q, q.head, q.tail, q.cap)
Length(q) == Len(Contents(q))

Running == fatal = "none"

LocalsInit == [pc |-> "idle", msg |-> NoMsg, slot |-> 0, lmq |-> NULL, s |-> 0]

HistInit ==
    [npush |-> 0,          \* GlobalMQ::push calls
     npop |-> 0,           \* GlobalMQ::pop calls that returned a reference
     dblq |-> FALSE,       \* a GlobalMQ::push found the reference already present
     order |-> <<>>,       \* ids accepted and not yet popped, in delivery order
     got |-> 0,            \* id the last successful MQ::pop returned
     want |-> 0,           \* id that pop had to return
     taken |-> {},         \* ids returned to a dispatcher by MQ::pop
     pushers |-> {},       \* producers whose push stored a message
     mcs |-> {},           \* ids pushed with a multicast payload
     relIds |-> {},        \* ids held when release() found m_release set
     freed |-> <<>>,       \* ids passed to free(), in order
     handed |-> <<>>,      \* ids passed to skynet_multicast_dispatch, in order
     relN |-> -1,          \* messages held when release() found m_release set
     relRet |-> -1,        \* what that release() returned
     idle0 |-> FALSE,      \* the behaviour started from an idle, unlocked mailbox
     wild |-> FALSE,       \* pushhead stored outside the buffer
     uaf |-> FALSE]        \* a method was entered on the deleted mailbox

\* GlobalMQ::GlobalMQ
GlobalInit ==
    /\ g_head = 0
    /\ g_tail = 0
    /\ g_queue = [i \in Slots |-> NULL]
    /\ g_flag = [i \in Slots |-> FALSE]

\* MQ::MQ
MQ_new ==
    [cap |-> DEFAULT_QUEUE_SIZE, head |-> 0, tail |-> 0, m_lock |-> 0,
     in_global |-> MQ_IN_GLOBAL, m_release |-> 0, lock_session |-> 0,
     queue |-> [i \in 0 .. (DEFAULT_QUEUE_SIZE - 1) |-> NoMsg], alive |-> TRUE]

Init ==
    /\ GlobalInit
    /\ mq = MQ_new
    /\ th = [t \in Threads |-> IF t = Owner THEN [LocalsInit EXCEPT !.pc = "new"]
                               ELSE LocalsInit]
    /\ fatal = "none"
    /\ nextId = 0
    /\ turns = 0
    /\ hist = HistInit

gvars == <<g_head, g_tail, g_queue, g_flag>>

\* ---------------------------------------------------------------- GlobalMQ

\* GlobalMQ::pop, lines 72-81.  The local head is initialised from itself, so
\* head_ptr is any slot; tail is the member.
GlobalMQ_pop_check(w) ==
    /\ Running
    /\ th[w].pc = "idle"
    /\ turns < MaxTurns
    /\ \E head \in Slots :
          LET head_ptr == GP(head) IN
          IF head_ptr = GP(g_tail) \/ ~g_flag[head_ptr]
          THEN th' = th
          ELSE th' = [th EXCEPT ![w].pc = "gpop_read", ![w].slot = head_ptr]
    /\ UNCHANGED <<gvars, mq, fatal, nextId, turns, hist>>

\* GlobalMQ::pop, lines 83-86.  The compare-and-swap names the local head: it
\* compares the local with itself, always succeeds, and leaves the member alone.
GlobalMQ_pop_read(w) ==
    /\ Running
    /\ th[w].pc = "gpop_read"
    /\ th' = [th EXCEPT ![w].pc = "gpop_clear", ![w].lmq = g_queue[th[w].slot]]
    /\ UNCHANGED <<gvars, mq, fatal, nextId, turns, hist>>

\* GlobalMQ::pop, lines 88-91.
GlobalMQ_pop_clear(w) ==
    /\ Running
    /\ th[w].pc = "gpop_clear"
    /\ g_flag' = [g_flag EXCEPT ![th[w].slot] = FALSE]
    /\ th' = [th EXCEPT ![w].pc = "got", ![w].slot = 0, ![w].lmq = NULL]
    /\ turns' = turns + 1
    /\ hist' = [hist EXCEPT !.npop = @ + 1]
    /\ UNCHANGED <<g_head, g_tail, g_queue, mq, fatal, nextId>>

\* GlobalMQ::push, lines 96-97.  The fetch-and-add names the local tail, which is
\* being initialised: the slot is any slot, and the member tail stays.
GlobalMQ_push_write(slot) ==
    /\ g_queue' = [g_queue EXCEPT ![slot] = This]
    /\ UNCHANGED <<g_head, g_tail, g_flag>>

\* GlobalMQ::push, lines 99-100.
GlobalMQ_push_flag(slot) ==
    /\ g_flag' = [g_flag EXCEPT ![slot] = TRUE]
    /\ UNCHANGED <<g_head, g_tail, g_queue>>

\* History of a GlobalMQ::push call.
HistPush(h) == [h EXCEPT !.npush = @ + 1, !.dblq = @ \/ RefCount > 0]

\* ------------------------------------------------------------ MQ, helpers

\* MQ::LOCK, entered by thread t whose locals become l.  On the deleted mailbox
\* the spin reads freed memory: the thread is lost.
LOCK(t, l) ==
    /\ Running
    /\ IF mq.alive
       THEN /\ mq.m_lock = 0
            /\ mq' = [mq EXCEPT !.m_lock = 1]
            /\ th' = [th EXCEPT ![t] = l]
            /\ hist' = hist
       ELSE /\ mq' = mq
            /\ th' = [th EXCEPT ![t].pc = "lost"]
            /\ hist' = [hist EXCEPT !.uaf = TRUE]
    /\ UNCHANGED <<gvars, fatal, nextId, turns>>

\* MQ::UNLOCK
UNLOCK(q) == [q EXCEPT !.m_lock = 0]

\* MQ::expand
expand(q) ==
    [q EXCEPT !.queue = [i \in 0 .. (2 * q.cap - 1) |->
                            IF i < q.cap THEN q.queue[(q.head + i) % q.cap]
                            ELSE NoMsg],
              !.head = 0,
              !.tail = q.cap,
              !.cap = 2 * q.cap]

\* MQ::push, lines 204-211: store at the tail, wrap, expand when full.
Enqueue(q, m) ==
    LET q1 == [q EXCEPT !.queue[q.tail] = m,
                        !.tail = IF q.tail + 1 >= q.cap THEN 0 ELSE q.tail + 1]
    IN  IF q1.head = q1.tail THEN expand(q1) ELSE q1

\* A push that announces the mailbox whatever its membership.
ShouldAnnounce_AnyMembership(q) == q.lock_session = 0

\* MQ::push, lines 214-215.
ShouldAnnounce(q) == q.lock_session = 0 /\ q.in_global = 0

\* A push that announces the mailbox and leaves its membership as it was.
MarkQueued_Forgotten(q) == q

\* MQ::push, line 216.
MarkQueued(q) == [q EXCEPT !.in_global = MQ_IN_GLOBAL]

\* MQ::pushhead, lines 296-307, with g the value the local head starts with.
\* The local shadows the member: line 307 assigns the local to itself and the
\* member head keeps its value.  The indexes that give different behaviours are
\* 0 .. cap + 1: one for each slot, and one past the end of the buffer.
HeadGarbage(q) == 0 .. (q.cap + 1)
pushhead_store(q, m, g) ==
    LET h0 == g - 1
        h1 == IF h0 < 0 THEN q.cap - 1 ELSE h0
        q1 == IF h1 = q.tail THEN [expand(q) EXCEPT !.tail = q.cap - 1] ELSE q
        h2 == IF h1 = q.tail THEN q1.cap - 1 ELSE h1
    IN  IF h2 < q1.cap
        THEN [q |-> [q1 EXCEPT !.queue[h2] = m], wild |-> FALSE]
        ELSE [q |-> q1, wild |-> TRUE]

\* MQ::pop between LOCK and UNLOCK, lines 173-183; msg is the caller's *message.
MQ_pop(q, msg) ==
    IF q.head # q.tail
    THEN [q |-> [q EXCEPT !.head = IF q.head + 1 >= q.cap THEN 0 ELSE q.head + 1,
                          !.in_global = 0],
          ret |-> TRUE, msg |-> q.queue[q.head]]
    ELSE [q |-> q, ret |-> FALSE, msg |-> msg]

\* History of a MQ::pop that returned r.
HistPop(h, r) ==
    IF r.ret
    THEN [h EXCEPT !.got = r.msg.id,
                   !.want = IF h.order = <<>> THEN 0 ELSE Head(h.order),
                   !.order = IF h.order = <<>> THEN <<>> ELSE Tail(h.order)]
    ELSE h

\* History of the push by p that stored message m at the tail or at the head.
HistStore(h, p, m, athead) ==
    [h EXCEPT !.order = IF athead THEN <<m.id>> \o @ ELSE Append(@, m.id),
              !.pushers = @ \cup {p},
              !.mcs = IF m.mc THEN @ \cup {m.id} ELSE @]

\* ---------------------------------------------------------------- MQ::push

\* A producer calls push(message) with a fresh payload: LOCK, line 196.
MQ_push_LOCK(p) ==
    /\ th[p].pc = "idle"
    /\ nextId < MaxMsgs
    /\ \E s \in Sessions, m \in BOOLEAN :
          LOCK(p, [th[p] EXCEPT !.pc = "push_cs", !.msg = Message(nextId + 1, s, m)])

\* Lines 202-222: the message is not the locker's.
MQ_push_tail(p) ==
    /\ Running
    /\ th[p].pc = "push_cs"
    /\ ~(mq.lock_session # 0 /\ th[p].msg.session = mq.lock_session)
    /\ nextId' = nextId + 1
    /\ LET q1 == Enqueue(mq, th[p].msg)
           h1 == HistStore(hist, p, th[p].msg, FALSE)
       IN  IF ShouldAnnounce(q1)
           THEN \E slot \in Slots :
                  /\ mq' = MarkQueued(q1)
                  /\ GlobalMQ_push_write(slot)
                  /\ th' = [th EXCEPT ![p].pc = "push_gflag", ![p].slot = slot]
                  /\ hist' = HistPush(h1)
           ELSE /\ mq' = UNLOCK(q1)
                /\ th' = [th EXCEPT ![p] = LocalsInit]
                /\ hist' = h1
                /\ UNCHANGED gvars
    /\ UNCHANGED <<fatal, turns>>

\* Lines 217 (second half of GlobalMQ::push) and 222.
MQ_push_flag(p) ==
    /\ Running
    /\ th[p].pc = "push_gflag"
    /\ GlobalMQ_push_flag(th[p].slot)
    /\ mq' = UNLOCK(mq)
    /\ th' = [th EXCEPT ![p] = LocalsInit]
    /\ UNCHANGED <<fatal, nextId, turns, hist>>

\* Lines 200-201 and MQ::pushhead: the message is the locker's.
MQ_push_head(p) ==
    /\ Running
    /\ th[p].pc = "push_cs"
    /\ mq.lock_session # 0 /\ th[p].msg.session = mq.lock_session
    /\ nextId' = nextId + 1
    /\ \E g \in HeadGarbage(mq) :
         LET r == pushhead_store(mq, th[p].msg, g)
             h1 == [HistStore(hist, p, th[p].msg, TRUE) EXCEPT !.wild = @ \/ r.wild]
         IN  IF r.q.in_global = MQ_LOCKED
             THEN \E slot \in Slots :
                    /\ mq' = r.q
                    /\ GlobalMQ_push_write(slot)
                    /\ th' = [th EXCEPT ![p].pc = "ph_gflag", ![p].slot = slot]
                    /\ hist' = HistPush(h1)
                    /\ fatal' = fatal
             ELSE /\ UNCHANGED gvars
                  /\ hist' = h1
                  /\ IF r.q.in_global = MQ_DISPATCHING
                     THEN /\ mq' = UNLOCK([r.q EXCEPT !.lock_session = 0])
                          /\ th' = [th EXCEPT ![p] = LocalsInit]
                          /\ fatal' = fatal
                     ELSE /\ mq' = r.q
                          /\ th' = th
                          /\ fatal' = "pushhead: assert(in_global == MQ_DISPATCHING)"
    /\ UNCHANGED turns

\* A pushhead that announces the mailbox and leaves the lock session set.
MQ_pushhead_flag_LockKept(p) ==
    /\ Running
    /\ th[p].pc = "ph_gflag"
    /\ GlobalMQ_push_flag(th[p].slot)
    /\ mq' = UNLOCK([mq EXCEPT !.in_global = MQ_IN_GLOBAL])
    /\ th' = [th EXCEPT ![p] = LocalsInit]
    /\ UNCHANGED <<fatal, nextId, turns, hist>>

\* MQ::pushhead lines 312 (second half) to 317, and line 222.
MQ_pushhead_flag(p) ==
    /\ Running
    /\ th[p].pc = "ph_gflag"
    /\ GlobalMQ_push_flag(th[p].slot)
    /\ mq' = UNLOCK([mq EXCEPT !.in_global = MQ_IN_GLOBAL, !.lock_session = 0])
    /\ th' = [th EXCEPT ![p] = LocalsInit]
    /\ UNCHANGED <<fatal, nextId, turns, hist>>

ProducerStep(p) ==
    \/ MQ_push_LOCK(p)
    \/ MQ_push_tail(p)
    \/ MQ_push_flag(p)
    \/ MQ_push_head(p)
    \/ MQ_pushhead_flag(p)

\* ---------------------------------------------------------- MQ::pushglobal

\* The owner registers the new mailbox, or a worker that holds the mailbox ends
\* its turn: LOCK, line 152.
MQ_pushglobal_LOCK(t) ==
    /\ th[t].pc \in (IF t = Owner THEN {"new"} ELSE {"got", "disp"})
    /\ LOCK(t, [th[t] EXCEPT !.pc = "pg_cs"])

\* Lines 153-162 up to the first half of GlobalMQ::push.
MQ_pushglobal_body(t) ==
    /\ Running
    /\ th[t].pc = "pg_cs"
    /\ IF mq.in_global = 0
       THEN /\ fatal' = "pushglobal: assert(in_global)"
            /\ UNCHANGED <<gvars, mq, th, hist>>
       ELSE LET q1 == IF mq.in_global = MQ_DISPATCHING
                      THEN [mq EXCEPT !.in_global = MQ_LOCKED] ELSE mq
            IN  /\ fatal' = fatal
                /\ IF q1.lock_session = 0
                   THEN \E slot \in Slots :
                          /\ mq' = q1
                          /\ GlobalMQ_push_write(slot)
                          /\ th' = [th EXCEPT ![t].pc = "pg_gflag", ![t].slot = slot]
                          /\ hist' = HistPush(hist)
                   ELSE /\ mq' = UNLOCK(q1)
                        /\ th' = [th EXCEPT ![t] = LocalsInit]
                        /\ UNCHANGED <<gvars, hist>>
    /\ UNCHANGED <<nextId, turns>>

\* Lines 159 (second half of GlobalMQ::push) to 162.
MQ_pushglobal_flag(t) ==
    /\ Running
    /\ th[t].pc = "pg_gflag"
    /\ GlobalMQ_push_flag(th[t].slot)
    /\ mq' = UNLOCK([mq EXCEPT !.in_global = MQ_IN_GLOBAL])
    /\ th' = [th EXCEPT ![t] = LocalsInit]
    /\ UNCHANGED <<fatal, nextId, turns, hist>>

\* ---------------------------------------------------------------- MQ::lock

\* A worker locks the mailbox it has just popped from GlobalMQ: LOCK, line 230.
MQ_lock_LOCK(w) ==
    /\ th[w].pc = "got"
    /\ LOCK(w, [th[w] EXCEPT !.pc = "lock_cs"])

\* A lock that asserts only that no lock session is active.
MQ_lock_body_AnyMembership(w) ==
    /\ Running
    /\ th[w].pc = "lock_cs"
    /\ IF mq.lock_session # 0
       THEN /\ fatal' = "lock: assert(lock_session == 0)"
            /\ UNCHANGED <<mq, th>>
       ELSE \E session \in LockSessions :
              /\ mq' = UNLOCK([mq EXCEPT !.in_global = MQ_DISPATCHING,
                                         !.lock_session = session])
              /\ th' = [th EXCEPT ![w].pc = "disp"]
              /\ fatal' = fatal
    /\ UNCHANGED <<gvars, nextId, turns, hist>>

\* Lines 231-235.
MQ_lock_body(w) ==
    /\ Running
    /\ th[w].pc = "lock_cs"
    /\ IF mq.lock_session # 0
       THEN /\ fatal' = "lock: assert(lock_session == 0)"
            /\ UNCHANGED <<mq, th>>
       ELSE IF mq.in_global # MQ_IN_GLOBAL
       THEN /\ fatal' = "lock: assert(in_global == MQ_IN_GLOBAL)"
            /\ UNCHANGED <<mq, th>>
       ELSE \E session \in LockSessions :
              /\ mq' = UNLOCK([mq EXCEPT !.in_global = MQ_DISPATCHING,
                                         !.lock_session = session])
              /\ th' = [th EXCEPT ![w].pc = "disp"]
              /\ fatal' = fatal
    /\ UNCHANGED <<gvars, nextId, turns, hist>>

\* ----------------------------------------------------------------- MQ::pop

\* A worker that holds the mailbox pops a message: LOCK, line 171.
MQ_pop_LOCK(w) ==
    /\ th[w].pc \in {"got", "disp"}
    /\ LOCK(w, [th[w] EXCEPT !.pc = "pop_cs"])

\* Lines 173-187.
MQ_pop_body(w) ==
    /\ Running
    /\ th[w].pc = "pop_cs"
    /\ LET r == MQ_pop(mq, th[w].msg)
       IN  /\ mq' = UNLOCK(r.q)
           /\ th' = [th EXCEPT ![w].pc = "disp"]
           /\ hist' = [HistPop(hist, r) EXCEPT
                          !.taken = IF r.ret THEN @ \cup {r.msg.id} ELSE @]
    /\ UNCHANGED <<gvars, fatal, nextId, turns>>

\* -------------------------------------------------------- MQ::mark_release

\* Lines 244-245, by the owner, without the lock.
MQ_mark_release(t) ==
    /\ Running
    /\ th[t].pc = "idle"
    /\ IF ~mq.alive
       THEN /\ hist' = [hist EXCEPT !.uaf = TRUE]
            /\ th' = [th EXCEPT ![t].pc = "lost"]
            /\ UNCHANGED <<mq, fatal>>
       ELSE IF mq.m_release # 0
       THEN /\ fatal' = "mark_release: assert(m_release == 0)"
            /\ UNCHANGED <<mq, th, hist>>
       ELSE /\ mq' = [mq EXCEPT !.m_release = 1]
            /\ UNCHANGED <<th, fatal, hist>>
    /\ UNCHANGED <<gvars, nextId, turns>>

\* ------------------------------------------- MQ::release, MQ::drop_queue

\* A worker that holds the mailbox ends its turn: LOCK, line 251.
MQ_release_LOCK(w) ==
    /\ th[w].pc \in {"got", "disp"}
    /\ LOCK(w, [th[w] EXCEPT !.pc = "rel_cs"])

\* What line 329 onwards can do with the uninitialised msg of drop_queue.
GarbageType == {"free", "dispatch", "assert"}

\* Lines 253-259 up to the first half of GlobalMQ::push.  With m_release set the
\* worker enters drop_queue, whose msg is uninitialised (line 325).
MQ_release_body(w) ==
    /\ Running
    /\ th[w].pc = "rel_cs"
    /\ IF mq.m_release # 0
       THEN /\ mq' = UNLOCK(mq)
            /\ th' = [th EXCEPT ![w].pc = "drop", ![w].s = 0, ![w].msg = NoMsg]
            /\ hist' = [hist EXCEPT !.relN = Length(mq),
                                    !.relIds = {Contents(mq)[k].id :
                                                  k \in 1 .. Length(mq)}]
            /\ UNCHANGED gvars
       ELSE \E slot \in Slots :
              /\ mq' = mq
              /\ GlobalMQ_push_write(slot)
              /\ th' = [th EXCEPT ![w].pc = "rel_gflag", ![w].slot = slot]
              /\ hist' = HistPush(hist)
    /\ UNCHANGED <<fatal, nextId, turns>>

\* Lines 257 (second half of GlobalMQ::push) and 258.
MQ_release_flag(w) ==
    /\ Running
    /\ th[w].pc = "rel_gflag"
    /\ GlobalMQ_push_flag(th[w].slot)
    /\ mq' = UNLOCK(mq)
    /\ th' = [th EXCEPT ![w] = LocalsInit]
    /\ UNCHANGED <<fatal, nextId, turns, hist>>

\* drop_queue, line 327: the LOCK of pop.
drop_queue_LOCK(w) ==
    /\ th[w].pc = "drop"
    /\ LOCK(w, [th[w] EXCEPT !.pc = "drop_cs"])

\* drop_queue, lines 327-337: pop, the test !pop(&msg), and the loop body.  The
\* loop runs while pop FAILS; a pop that succeeds ends it with its message left
\* in msg.  In the body msg is what the declaration left in it.
drop_queue_pop(w) ==
    /\ Running
    /\ th[w].pc = "drop_cs"
    /\ LET r == MQ_pop(mq, th[w].msg)
       IN  /\ mq' = UNLOCK(r.q)
           /\ IF r.ret
              THEN /\ th' = [th EXCEPT ![w].pc = "drop_delete", ![w].msg = r.msg]
                   /\ hist' = HistPop(hist, r)
                   /\ fatal' = fatal
              ELSE /\ th[w].s < MaxSpin
                   /\ \E type \in GarbageType :
                        /\ th' = [th EXCEPT ![w].pc = IF type = "assert" THEN "drop_cs"
                                                      ELSE "drop",
                                            ![w].s = @ + 1]
                        /\ hist' = [hist EXCEPT
                                      !.freed = IF type = "free"
                                                THEN Append(@, th[w].msg.id) ELSE @,
                                      !.handed = IF type = "dispatch"
                                                 THEN Append(@, th[w].msg.id) ELSE @]
                        /\ fatal' = IF type = "assert"
                                    THEN "drop_queue: assert((msg.sz & HANDLE_MASK) == 0)"
                                    ELSE fatal
    /\ UNCHANGED <<gvars, nextId, turns>>

\* drop_queue, lines 338-339, and release, line 261.
drop_queue_delete(w) ==
    /\ Running
    /\ th[w].pc = "drop_delete"
    /\ mq' = [mq EXCEPT !.alive = FALSE]
    /\ th' = [th EXCEPT ![w] = LocalsInit]
    /\ hist' = [hist EXCEPT !.relRet = th[w].s]
    /\ UNCHANGED <<gvars, fatal, nextId, turns>>

\* ------------------------------------------------------------------ threads

OwnerStep ==
    \/ MQ_pushglobal_LOCK(Owner)
    \/ MQ_pushglobal_body(Owner)
    \/ MQ_pushglobal_flag(Owner)
    \/ MQ_mark_release(Owner)

WorkerStep(w) ==
    \/ GlobalMQ_pop_check(w)
    \/ GlobalMQ_pop_read(w)
    \/ GlobalMQ_pop_clear(w)
    \/ MQ_lock_LOCK(w)
    \/ MQ_lock_body(w)
    \/ MQ_pop_LOCK(w)
    \/ MQ_pop_body(w)
    \/ MQ_pushglobal_LOCK(w)
    \/ MQ_pushglobal_body(w)
    \/ MQ_pushglobal_flag(w)
    \/ MQ_release_LOCK(w)
    \/ MQ_release_body(w)
    \/ MQ_release_flag(w)
    \/ drop_queue_LOCK(w)
    \/ drop_queue_pop(w)
    \/ drop_queue_delete(w)

\* The owner, one producer and one worker.
Next ==
    \/ OwnerStep
    \/ ProducerStep("p1")
    \/ WorkerStep(W1)

Spec == Init /\ [][Next]_vars

\* --------------------------------------------- ReadyQueue under two workers

\* The owner registers the mailbox; two workers pop it from GlobalMQ and hand
\* it back with pushglobal.  No message is pushed.
NextPop ==
    \/ MQ_pushglobal_LOCK(Owner)
    \/ \E t \in {Owner} \cup Workers :
          \/ MQ_pushglobal_body(t)
          \/ MQ_pushglobal_flag(t)
    \/ \E w \in Workers :
          \/ GlobalMQ_pop_check(w)
          \/ GlobalMQ_pop_read(w)
          \/ GlobalMQ_pop_clear(w)
          \/ MQ_pushglobal_LOCK(w)

SpecPop == Init /\ [][NextPop]_vars

\* ------------------------------------------------------- producers alone

\* The membership and lock session a mailbox can have while it is empty, no
\* method runs on it and GlobalMQ holds no reference to it: constructed or
\* popped from GlobalMQ (1, 0); after a pop that returned a message (0, 0);
\* after lock (2, s); after lock and pushglobal (3, s); after lock and a pop
\* that returned a message (0, s); after lock and the locker's message (2, 0).
QuietStates ==
    {<<MQ_IN_GLOBAL, 0>>, <<0, 0>>, <<MQ_DISPATCHING, 0>>}
    \cup {<<g, s>> : g \in {0, MQ_DISPATCHING, MQ_LOCKED}, s \in LockSessions}

\* The empty mailbox in one of these states.  Only a pop that returned a message
\* moves the cursors off 0, and it leaves the membership 0.  With the
\* membership MQ_IN_GLOBAL the reference may also be queued (once).
InitPush ==
    /\ g_head = 0
    /\ g_tail = 0
    /\ \E st \in QuietStates, h \in 0 .. (DEFAULT_QUEUE_SIZE - 1), queued \in BOOLEAN :
          /\ st[1] # 0 => h = 0
          /\ queued => st = <<MQ_IN_GLOBAL, 0>>
          /\ mq = [MQ_new EXCEPT !.in_global = st[1], !.lock_session = st[2],
                                 !.head = h, !.tail = h]
          /\ hist = [HistInit EXCEPT !.idle0 = (st = <<0, 0>>)]
          /\ g_queue = [i \in Slots |-> IF queued /\ i = MAX_GLOBAL_MQ - 1 THEN This
                                        ELSE NULL]
          /\ g_flag = [i \in Slots |-> queued /\ i = MAX_GLOBAL_MQ - 1]
    /\ th = [t \in Threads |-> LocalsInit]
    /\ fatal = "none"
    /\ nextId = 0
    /\ turns = 0

NextPush == \E p \in Producers : ProducerStep(p)

SpecPush == InitPush /\ [][NextPush]_vars

\* ------------------------------------------------ lock() in every state

\* Two workers that hold the mailbox call lock() on it while the producers
\* push; the mailbox starts empty in any of the quiet states.
InitLock ==
    /\ GlobalInit
    /\ \E st \in QuietStates, h \in 0 .. (DEFAULT_QUEUE_SIZE - 1) :
          /\ st[1] # 0 => h = 0
          /\ mq = [MQ_new EXCEPT !.in_global = st[1], !.lock_session = st[2],
                                 !.head = h, !.tail = h]
    /\ th = [t \in Threads |-> IF t \in Workers THEN [LocalsInit EXCEPT !.pc = "got"]
                               ELSE LocalsInit]
    /\ fatal = "none"
    /\ nextId = 0
    /\ turns = 0
    /\ hist = HistInit

NextLock ==
    \/ \E p \in Producers : ProducerStep(p)
    \/ \E w \in Workers : MQ_lock_LOCK(w) \/ MQ_lock_body(w)

SpecLock == InitLock /\ [][NextLock]_vars

\* ------------------------------------------- pushglobal() under a lock

\* Worker W1 has popped the mailbox from GlobalMQ and locked it (membership
\* MQ_DISPATCHING), and may have popped a message since (membership 0).  It
\* ends its turn with pushglobal() while the producers push.
InitDefer ==
    /\ GlobalInit
    /\ \E g \in {0, MQ_DISPATCHING}, s \in LockSessions,
          h \in 0 .. (DEFAULT_QUEUE_SIZE - 1) :
          /\ g # 0 => h = 0
          /\ mq = [MQ_new EXCEPT !.in_global = g, !.lock_session = s,
                                 !.head = h, !.tail = h]
    /\ th = [t \in Threads |-> IF t = W1 THEN [LocalsInit EXCEPT !.pc = "disp"]
                               ELSE LocalsInit]
    /\ fatal = "none"
    /\ nextId = 0
    /\ turns = 0
    /\ hist = HistInit

\* No push of these runs takes the announcing branch of the tail insertion
\* (MQ_push_flag): the membership is 0 only while the session is pending.
NextDefer ==
    \/ \E p \in Producers :
          \/ MQ_push_LOCK(p)
          \/ MQ_push_tail(p)
          \/ MQ_push_head(p)
          \/ MQ_pushhead_flag(p)
    \/ MQ_pushglobal_LOCK(W1)
    \/ MQ_pushglobal_body(W1)
    \/ MQ_pushglobal_flag(W1)

SpecDefer == InitDefer /\ [][NextDefer]_vars

\* ------------------------------------------------- a crowded ReadyQueue

\* A reference to the mailbox of another service; of that mailbox only its
\* place in GlobalMQ is modelled.
Other == "other"

\* The references GlobalMQ holds that no pop has consumed: the flagged slots.
ReadyCount == Cardinality({i \in Slots : g_flag[i]})

\* Other services have been pushed into any of the slots (GlobalMQ::push picks
\* the slot from an uninitialised local and leaves the shared tail at 0); the
\* owner is about to register the new mailbox.
InitReady ==
    /\ g_head = 0
    /\ g_tail = 0
    /\ \E F \in SUBSET Slots :
          /\ g_queue = [i \in Slots |-> IF i \in F THEN Other ELSE NULL]
          /\ g_flag = [i \in Slots |-> i \in F]
    /\ mq = MQ_new
    /\ th = [t \in Threads |-> IF t = Owner THEN [LocalsInit EXCEPT !.pc = "new"]
                               ELSE LocalsInit]
    /\ fatal = "none"
    /\ nextId = 0
    /\ turns = 0
    /\ hist = HistInit

\* The owner registers the mailbox with pushglobal() while the workers pop.
NextReady ==
    \/ MQ_pushglobal_LOCK(Owner)
    \/ MQ_pushglobal_body(Owner)
    \/ MQ_pushglobal_flag(Owner)
    \/ \E w \in Workers :
          \/ GlobalMQ_pop_check(w)
          \/ GlobalMQ_pop_read(w)
          \/ GlobalMQ_pop_clear(w)

SpecReady == InitReady /\ [][NextReady]_vars

\* ================================================================== claims

AllIdle(T) == \A t \in T : th[t].pc = "idle"

\* C1 (refuted by the code): a reference pushed k times into GlobalMQ is
\* returned by at most k successful GlobalMQ::pop calls, under two workers that
\* pop concurrently.
C1_PopsWithinPushes == hist.npop <= hist.npush

C3_NeverDoubleQueued == ~hist.dblq

\* C4 (refuted by the code): whenever no thread holds the mailbox lock, the
\* membership is MQ_IN_GLOBAL if and only if a reference to the mailbox is in
\* GlobalMQ.
C4_QueuedIffPresent ==
    (mq.alive /\ mq.m_lock = 0) => ((mq.in_global = MQ_IN_GLOBAL) <=> (RefCount > 0))

\* C5 (refuted by the code): MQ::pop returns the messages in push order, except
\* that the locker's message, inserted at the head, is returned by the next pop.
\* hist.order is that order; every successful pop must return its head.
C5_FifoWithPriority == hist.got = hist.want

\* The ids the mailbox holds between head and tail.
Held == {Contents(mq)[k].id : k \in 1 .. Length(mq)}

\* C6 (refuted by the code): every message pushed to a mailbox that is never
\* marked for release is eventually returned by MQ::pop.  MQ::pop returns only
\* what lies between head and tail, so until it is returned a pushed message
\* has to stay there: a finite run refutes the claim where a pushed message
\* that no pop has returned is no longer between head and tail (from there
\* every pop fails, or returns another message, unless more is pushed).
C6_PushedStaysQueued ==
    (mq.alive /\ mq.m_release = 0) =>
        \A i \in 1 .. nextId : i \in hist.taken \/ i \in Held

\* C7 (refuted by the code): after mark_release(), release() on a mailbox
\* holding n messages returns n.
C7_ReleaseReturnsCount == hist.relRet # -1 => hist.relRet = hist.relN

Occurrences(seq, x) == Cardinality({k \in 1 .. Len(seq) : seq[k] = x})

\* C8 (refuted by the code): the teardown drain disposes of every message still
\* queued exactly once, a multicast payload through the callback and any other
\* through free(), and disposes of no payload that was never queued.
C8_DrainDisposesOnce ==
    ~mq.alive =>
        /\ \A i \in hist.relIds :
              /\ Occurrences(hist.handed, i) = (IF i \in hist.mcs THEN 1 ELSE 0)
              /\ Occurrences(hist.freed, i) = (IF i \in hist.mcs THEN 0 ELSE 1)
        /\ \A k \in 1 .. Len(hist.freed) : hist.freed[k] \in 1 .. nextId
        /\ \A k \in 1 .. Len(hist.handed) : hist.handed[k] \in 1 .. nextId

\* C9 (refuted by the code): pushglobal() called after MQ::pop returned a
\* message, with no lock session active, does not fail its assertion.
C9_PushglobalAfterPop ==
    ~(fatal = "pushglobal: assert(in_global)" /\ mq.lock_session = 0)

\* C10: pushes to an idle, unlocked mailbox with no pop in between call
\* GlobalMQ::push exactly once: the first push that stores a message sets the
\* membership to MQ_IN_GLOBAL and enqueues the mailbox, the later ones do not.
C10_OneAnnouncement ==
    hist.idle0 =>
        /\ hist.npush <= 1
        /\ (hist.order # <<>> => hist.npush = 1 /\ mq.in_global = MQ_IN_GLOBAL)

\* C10's case: every push has been made, from the idle mailbox, and the mailbox
\* was enqueued once.
C10_Witness ==
    /\ hist.idle0
    /\ Len(hist.order) = MaxMsgs
    /\ MaxMsgs >= 2
    /\ AllIdle(Producers)
    /\ hist.npush = 1
    /\ RefCount = 1

\* The ids of a sequence of messages.
Ids(seq) == [k \in 1 .. Len(seq) |-> seq[k].id]

\* C11 (refuted by the code): an expansion of the buffer, whether the tail
\* insertion of MQ::push or the head insertion of MQ::pushhead triggers it,
\* keeps the order and the number of the messages: if the mailbox held what a
\* mailbox that never expands holds (hist.order) before the insertion, it holds
\* what that mailbox holds after it, so that the pops return the same sequence.
C11_ExpansionKeepsOrder ==
    [][(mq'.cap > mq.cap /\ Ids(Contents(mq)) = hist.order)
          => Ids(Contents(mq')) = hist'.order]_vars

\* The fields of the mailbox that the spinlock protects, and alive for the
\* buffer that ~MQ frees.
Guarded(q) ==
    <<q.queue, q.cap, q.head, q.tail, q.in_global, q.lock_session, q.m_release,
      q.alive>>

\* Where a thread is between LOCK() and UNLOCK().
InsideLock ==
    {"push_cs", "push_gflag", "ph_gflag", "pg_cs", "pg_gflag", "lock_cs", "pop_cs",
     "rel_cs", "rel_gflag", "drop_cs"}

\* C12 (refuted by the code): the buffer, the cursors, the membership, the lock
\* session and the release flag of the mailbox are written only by a thread
\* that holds the spinlock: every step that changes one of them is a step of a
\* thread that is between LOCK() and UNLOCK().
C12_AccessUnderLock ==
    [][Guarded(mq') # Guarded(mq)
          => \E t \in Threads : /\ th[t].pc \in InsideLock
                                /\ (th'[t] # th[t] \/ fatal' # fatal)]_vars

\* C15 (refuted by the code): with the worker doing GlobalMQ::pop, lock,
\* MQ::pop and pushglobal in the dispatcher's order, whenever the lock session
\* is not 0 and no method is inside the mailbox the membership is
\* MQ_DISPATCHING or MQ_LOCKED, and the locker's push never fails the
\* assertion of pushhead.
C15_LockedWhileDispatching ==
    /\ (mq.alive /\ mq.m_lock = 0 /\ mq.lock_session # 0)
          => mq.in_global \in {MQ_DISPATCHING, MQ_LOCKED}
    /\ fatal # "pushhead: assert(in_global == MQ_DISPATCHING)"

\* C17 (refuted by the code): with the calls made one after the other on the
\* ReadyQueue that starts empty, every GlobalMQ::pop that returns a reference
\* advances the shared head by one: between calls the shared head is the number
\* of references popped.
C17_PopAdvancesHead ==
    (\A t \in Threads : th[t].pc \in {"new", "idle", "got"}) => g_head = hist.npop

\* C18 (refuted by the code): release() on the marked mailbox terminates, the
\* empty mailbox included: the drain stops at the first pop that finds the
\* mailbox empty.  th[w].s counts the passes of the loop body of drop_queue; a
\* drain that is still looping has made none after a pop that failed.
C18_DrainStopsWhenEmpty ==
    \A w \in Workers : th[w].pc \in {"drop", "drop_cs"} => th[w].s = 0

\* C19 (refuted by the code): once release() has destroyed the mailbox, no
\* reference to it is in GlobalMQ, whatever the producers pushed.
C19_NoReferenceToDestroyed == ~mq.alive => RefCount = 0

\* C20 (refuted by the code): a push that races release() on the marked mailbox
\* has completed before the mailbox is destroyed or does not touch it: once the
\* mailbox is destroyed no producer is inside MQ::push, holding or spinning on
\* its lock.
C20_NoPushOnDestroyed == ~mq.alive => \A p \in Producers : th[p].pc = "idle"

\* C13: MQ::lock(session) succeeds, setting the membership to MQ_DISPATCHING
\* and the lock session, exactly when the mailbox has no lock session and its
\* membership is MQ_IN_GLOBAL; in every other state it fails an assertion and
\* leaves the membership and the lock session as they were.
C13_LockContract ==
    [][\A w \in Workers :
          (th[w].pc = "lock_cs" /\ (th'[w] # th[w] \/ fatal' # fatal))
             => IF mq.lock_session = 0 /\ mq.in_global = MQ_IN_GLOBAL
                THEN /\ fatal' = "none"
                     /\ th'[w].pc = "disp"
                     /\ mq'.in_global = MQ_DISPATCHING
                     /\ mq'.lock_session \in LockSessions
                ELSE /\ fatal' \in {"lock: assert(lock_session == 0)",
                                    "lock: assert(in_global == MQ_IN_GLOBAL)"}
                     /\ mq'.in_global = mq.in_global
                     /\ mq'.lock_session = mq.lock_session]_vars

\* C13's case: one worker has locked the mailbox, the lock() of the other has
\* failed, and the mailbox is as the first lock() left it.
C13_Witness ==
    \E w1, w2 \in Workers :
       /\ th[w1].pc = "disp"
       /\ th[w2].pc = "lock_cs"
       /\ fatal = "lock: assert(lock_session == 0)"
       /\ mq.in_global = MQ_DISPATCHING
       /\ mq.lock_session \in LockSessions

\* C14 (refuted by the code): a GlobalMQ::push made when every slot of GlobalMQ
\* holds a reference that no pop has consumed is a fatal error.
C14_FullPushIsFatal ==
    [][(ReadyCount = MAX_GLOBAL_MQ /\ hist'.npush > hist.npush)
          => fatal' # "none"]_vars

\* A step of pushglobal() by worker W1 between its LOCK() and its UNLOCK().
PushglobalStep == th[W1].pc = "pg_cs" /\ (th'[W1] # th[W1] \/ fatal' # fatal)

\* A step of producer p in which it stores the locker's message.
LockerStore(p) ==
    /\ th[p].pc = "push_cs"
    /\ mq.lock_session # 0
    /\ th[p].msg.session = mq.lock_session
    /\ (th'[p] # th[p] \/ fatal' # fatal)

\* pushglobal() by W1 has returned and the lock session it found is pending:
\* only lock() sets a session, so that pushglobal() took the deferring branch.
Deferred == th[W1].pc = "idle" /\ mq.lock_session # 0

====
